---- MODULE Spec2Model ----
(***************************************************************************)
(* Model of arch_mirror_updater.py: main() checks the platform and the     *)
(* effective user, fetches the mirror status document, warns when its      *)
(* last_check is old, and streams the lines yielded by the generator       *)
(* updated_urls() into /etc/pacman.d/mirrorlist, opening the file once per *)
(* line (mode "w" for the first line, "a" afterwards).                     *)
(*                                                                         *)
(* Strings that the code searches or concatenates (urls, sys.platform,     *)
(* output lines) are sequences of string fragments; their concatenation is *)
(* the Python string.  JSON numbers are fractions <<num, den>>.  A         *)
(* timestamp string is the record of its printed fields; frac = NoFrac     *)
(* means the string has no ".ffffff" part.                                 *)
(***************************************************************************)
EXTENDS Integers, Sequences, FiniteSets, TLC

VARIABLES platform, euid, NOW, file, file0, pc, error, fetched, DATA,
          warnings, have_failed, mode, idx, mirror_path, fileOpen, openLog,
          writes, yielded, calls

vars == <<platform, euid, NOW, file, file0, pc, error, fetched, DATA,
          warnings, have_failed, mode, idx, mirror_path, fileOpen, openLog,
          writes, yielded, calls>>

(* ------------------------------ options -------------------------------- *)
MAX_LAST_SYNC_HOURS == 6

MAX_SCORE == 1

MINIMUM_COMPLETION_PERCENTAGE == 1

URL_BLACKLIST ==
    { <<"mirrors.", "lug.", "mtu.", "edu">>,
      <<"mirror.", "rackspace.", "com">> }

(* Largest number of entries of the fetched "urls" list. *)
MaxUrls == 2

(* ------------------------------ strings -------------------------------- *)
(* Python's `sub in s` on str: sub occurs as a contiguous run of s. *)
Contains(sub, s) ==
    \E i \in 0..(Len(s) - Len(sub)) :
        \A k \in 1..Len(sub) : s[i + k] = sub[k]

(* "linux" in sys.platform *)
is_platform_linux == Contains(<<"linux">>, platform)

(* f"Server = {url}$repo/os/$arch\n" *)
FormatLine(url) == <<"Server = ">> \o url \o <<"$repo/os/$arch\n">>

(* ------------------------------ numbers -------------------------------- *)
(* q >= n for the fraction q = <<num, den>>, den > 0, and the integer n *)
FracGeq(q, n) == q[1] >= n * q[2]

(* ------------------------------ time ----------------------------------- *)
NoFrac == -1

FMT_SECONDS == "%Y-%m-%dT%H:%M:%SZ"

FMT_MICROS == "%Y-%m-%dT%H:%M:%S.%fZ"

(* datetime.strptime raises ValueError unless the string has exactly the   *)
(* fields of the format: ".%f" needs a fraction, its absence forbids one.  *)
StrptimeOk(timestamp, time_format) ==
    IF time_format = FMT_MICROS THEN timestamp.frac # NoFrac
                                ELSE timestamp.frac = NoFrac

strptime(timestamp, time_format) ==
    [day |-> timestamp.day, hour |-> timestamp.hour,
     minute |-> timestamp.minute, second |-> timestamp.second,
     microsecond |-> IF time_format = FMT_MICROS THEN timestamp.frac ELSE 0]

ToSeconds(dt) == ((dt.day * 24 + dt.hour) * 60 + dt.minute) * 60 + dt.second

(* datetime - datetime: a timedelta normalised to 0 <= seconds < 86400 and *)
(* 0 <= microseconds < 10^6, days carrying the sign.                       *)
DatetimeSub(a, b) ==
    LET us0    == a.microsecond - b.microsecond
        borrow == IF us0 < 0 THEN 1 ELSE 0
        total  == ToSeconds(a) - ToSeconds(b) - borrow
    IN  [days |-> total \div 86400, seconds |-> total % 86400,
         microseconds |-> us0 + borrow * 1000000]

(* Variant: the boundary counts as outdated (>= for >). *)
is_outdated_geq(timestamp, time_format) ==
    LET result == DatetimeSub(NOW, strptime(timestamp, time_format))
        whole  == result.days * 86400 + result.seconds
    IN  whole >= MAX_LAST_SYNC_HOURS * 3600

(* timedelta.total_seconds() / 3600 > MAX_LAST_SYNC_HOURS.  The quotient   *)
(* is compared exactly: whole seconds first, then the microseconds.        *)
is_outdated(timestamp, time_format) ==
    LET result == DatetimeSub(NOW, strptime(timestamp, time_format))
        whole  == result.days * 86400 + result.seconds
    IN  \/ whole > MAX_LAST_SYNC_HOURS * 3600
        \/ whole = MAX_LAST_SYNC_HOURS * 3600 /\ result.microseconds > 0

CallRecord(timestamp, time_format) ==
    [timestamp |-> timestamp, time_format |-> time_format,
     result |-> is_outdated(timestamp, time_format)]

(* ------------------------------ inputs --------------------------------- *)
TS(d, h, mi, s, f) ==
    [day |-> d, hour |-> h, minute |-> mi, second |-> s, frac |-> f]

DT(d, h, mi, s, us) ==
    [day |-> d, hour |-> h, minute |-> mi, second |-> s, microsecond |-> us]

Nows == { DT(1, 12, 0, 0, 0), DT(1, 12, 0, 0, 500000) }

Platforms == { <<"linux">>, <<"linux", "2">>, <<"win32">>, <<"darwin">> }

Euids == { 0, 1000 }

OldLine == <<"Server = ", "http://", "old.", "example", "/", "$repo/os/$arch\n">>

InitialFiles == { <<>>, <<OldLine>> }

LastChecks ==
    { TS(1, 11, 59, 59, 999999),   \* fresh
      TS(1, 6, 0, 0, 0),           \* 6 hours before 12:00:00.000000
      TS(1, 5, 59, 59, 999999),    \* one microsecond more than 6 hours
      TS(1, 2, 0, 0, 0),           \* 10 hours
      TS(1, 11, 0, 0, NoFrac) }    \* no fraction: does not match ".%f"

UrlA == <<"https://", "mirror.", "example", "/">>

UrlB == <<"https://", "mirror.", "other", "/">>

EntryA ==
    [url |-> UrlA, protocol |-> "https", active |-> TRUE,
     completion_pct |-> <<1, 1>>, score |-> <<1, 2>>,
     last_sync |-> TS(1, 11, 0, 0, NoFrac)]

EntryB ==
    [url |-> UrlB, protocol |-> "https", active |-> TRUE,
     completion_pct |-> <<1, 1>>, score |-> <<1, 4>>,
     last_sync |-> TS(1, 10, 30, 0, NoFrac)]

Entries ==
    { EntryA, EntryB,
      [EntryA EXCEPT !.url = <<"https://", "mirrors.", "lug.", "mtu.", "edu", "/archlinux/">>],
      [EntryA EXCEPT !.url = <<"https://", "mirror.", "rackspace.", "com", "/archlinux/">>],
      [EntryA EXCEPT !.url = <<"https://", "mirrors.", "lug.", "mtu.", "org", "/">>],
      [EntryA EXCEPT !.active = FALSE],
      [EntryA EXCEPT !.active = FALSE, !.last_sync = TS(1, 11, 0, 0, 0)],
      [EntryA EXCEPT !.protocol = "http"],
      [EntryA EXCEPT !.protocol = "HTTPS"],
      [EntryA EXCEPT !.completion_pct = <<99, 100>>],
      [EntryA EXCEPT !.score = <<1, 1>>],
      [EntryA EXCEPT !.score = <<3, 2>>],
      [EntryA EXCEPT !.last_sync = TS(1, 6, 0, 0, NoFrac)],
      [EntryA EXCEPT !.last_sync = TS(1, 5, 59, 59, NoFrac)],
      [EntryA EXCEPT !.last_sync = TS(0, 23, 0, 0, NoFrac)],
      [EntryA EXCEPT !.last_sync = TS(1, 13, 0, 0, NoFrac)],
      [EntryA EXCEPT !.last_sync = TS(1, 11, 0, 0, 0)] }

UrlLists == UNION { [1..n -> Entries] : n \in 0..MaxUrls }

Responses == [last_check : LastChecks, urls : UrlLists]

NoData == [last_check |-> TS(0, 0, 0, 0, NoFrac), urls |-> <<>>]

StaleWarning == "The number of hours since the last sync of the data, is larger than 6"

NotUpdatedWarning == "The mirror list was not updated"

(* ------------------------------ filter --------------------------------- *)
(* Variant: the url is looked up in the set instead of searched. *)
Blacklisted_exact(url_information) ==
    url_information.url \in URL_BLACKLIST

Blacklisted(url_information) ==
    \E slow_url \in URL_BLACKLIST : Contains(slow_url, url_information.url)

(* Variant: a score equal to MAX_SCORE is let through (> for >=). *)
SkippedEarly_scoreGt(url_information) ==
    \/ Blacklisted(url_information)
    \/ ~url_information.active
    \/ url_information.protocol # "https"
    \/ ~FracGeq(url_information.completion_pct, MINIMUM_COMPLETION_PERCENTAGE)
    \/ url_information.score[1] > MAX_SCORE * url_information.score[2]

(* The first five branches of the if/elif chain: TRUE when one of them     *)
(* executes `continue`, so that is_outdated is not called for the entry.   *)
SkippedEarly(url_information) ==
    \/ Blacklisted(url_information)
    \/ ~url_information.active
    \/ url_information.protocol # "https"
    \/ ~FracGeq(url_information.completion_pct, MINIMUM_COMPLETION_PERCENTAGE)
    \/ FracGeq(url_information.score, MAX_SCORE)

(* ------------------------------ state ---------------------------------- *)
Init ==
    /\ platform \in Platforms
    /\ euid \in Euids
    /\ NOW \in Nows
    /\ file0 \in InitialFiles
    /\ file = file0
    /\ pc = "main"
    /\ error = "none"
    /\ fetched = FALSE
    /\ DATA = NoData
    /\ warnings = <<>>
    /\ have_failed = TRUE
    /\ mode = "w"
    /\ idx = 0
    /\ mirror_path = <<>>
    /\ fileOpen = FALSE
    /\ openLog = <<>>
    /\ writes = 0
    /\ yielded = <<>>
    /\ calls = {}

Raise(exc) == pc' = "error" /\ error' = exc

(* Variant: the effective user is not checked. *)
CheckPreconditions_noRoot ==
    /\ pc = "main"
    /\ IF ~is_platform_linux
         THEN Raise("RuntimeError: The running platform is not linux")
         ELSE pc' = "fetch" /\ error' = error
    /\ UNCHANGED <<platform, euid, NOW, file, file0, fetched, DATA, warnings,
                   have_failed, mode, idx, mirror_path, fileOpen, openLog,
                   writes, yielded, calls>>

(* main, lines 49-52 *)
CheckPreconditions ==
    /\ pc = "main"
    /\ IF ~is_platform_linux
         THEN Raise("RuntimeError: The running platform is not linux")
         ELSE IF euid # 0
           THEN Raise("RuntimeError: The user who is running the script needs to be root")
           ELSE pc' = "fetch" /\ error' = error
    /\ UNCHANGED <<platform, euid, NOW, file, file0, fetched, DATA, warnings,
                   have_failed, mode, idx, mirror_path, fileOpen, openLog,
                   writes, yielded, calls>>

(* load_data_from_url: the request succeeds and the body is a JSON document *)
LoadData ==
    /\ pc = "fetch"
    /\ fetched' = TRUE
    /\ \E d \in Responses : DATA' = d
    /\ pc' = "advisory"
    /\ UNCHANGED <<platform, euid, NOW, file, file0, error, warnings,
                   have_failed, mode, idx, mirror_path, fileOpen, openLog,
                   writes, yielded, calls>>

(* urlopen raises: no connection, or a non-success status *)
LoadDataNetworkError ==
    /\ pc = "fetch"
    /\ fetched' = TRUE
    /\ Raise("URLError")
    /\ UNCHANGED <<platform, euid, NOW, file, file0, DATA, warnings,
                   have_failed, mode, idx, mirror_path, fileOpen, openLog,
                   writes, yielded, calls>>

(* bytes.decode or json.loads raises *)
LoadDataParseError ==
    /\ pc = "fetch"
    /\ fetched' = TRUE
    /\ \E exc \in {"UnicodeDecodeError", "JSONDecodeError"} : Raise(exc)
    /\ UNCHANGED <<platform, euid, NOW, file, file0, DATA, warnings,
                   have_failed, mode, idx, mirror_path, fileOpen, openLog,
                   writes, yielded, calls>>

(* Variant: an outdated last_check aborts the run instead of warning. *)
StalenessAdvisory_abort ==
    /\ pc = "advisory"
    /\ IF ~StrptimeOk(DATA.last_check, FMT_MICROS)
         THEN /\ Raise("ValueError")
              /\ UNCHANGED <<warnings, have_failed, mode, calls>>
         ELSE /\ calls' = calls \cup {CallRecord(DATA.last_check, FMT_MICROS)}
              /\ IF is_outdated(DATA.last_check, FMT_MICROS)
                   THEN /\ Raise("RuntimeError: stale data")
                        /\ UNCHANGED <<warnings, have_failed, mode>>
                   ELSE /\ warnings' = warnings
                        /\ have_failed' = TRUE
                        /\ mode' = "w"
                        /\ pc' = "for"
                        /\ error' = error
    /\ UNCHANGED <<platform, euid, NOW, file, file0, fetched, DATA, idx,
                   mirror_path, fileOpen, openLog, writes, yielded>>

(* main, lines 56-64 *)
StalenessAdvisory ==
    /\ pc = "advisory"
    /\ IF ~StrptimeOk(DATA.last_check, FMT_MICROS)
         THEN /\ Raise("ValueError")
              /\ UNCHANGED <<warnings, have_failed, mode, calls>>
         ELSE /\ calls' = calls \cup {CallRecord(DATA.last_check, FMT_MICROS)}
              /\ warnings' = IF is_outdated(DATA.last_check, FMT_MICROS)
                               THEN Append(warnings, StaleWarning)
                               ELSE warnings
              /\ have_failed' = TRUE
              /\ mode' = "w"
              /\ pc' = "for"
              /\ error' = error
    /\ UNCHANGED <<platform, euid, NOW, file, file0, fetched, DATA, idx,
                   mirror_path, fileOpen, openLog, writes, yielded>>

(* updated_urls, lines 153-170: the entry at the generator's position takes *)
(* one of the `continue` branches.                                         *)
updated_urls_continue ==
    /\ pc = "for"
    /\ idx < Len(DATA.urls)
    /\ LET url_information == DATA.urls[idx + 1]
       IN  IF SkippedEarly(url_information)
             THEN calls' = calls
             ELSE /\ StrptimeOk(url_information.last_sync, FMT_SECONDS)
                  /\ is_outdated(url_information.last_sync, FMT_SECONDS)
                  /\ calls' = calls \cup
                         {CallRecord(url_information.last_sync, FMT_SECONDS)}
    /\ idx' = idx + 1
    /\ UNCHANGED <<platform, euid, NOW, file, file0, pc, error, fetched, DATA,
                   warnings, have_failed, mode, mirror_path, fileOpen,
                   openLog, writes, yielded>>

(* updated_urls, lines 167-168 and 191: strptime raises inside is_outdated *)
updated_urls_raise ==
    /\ pc = "for"
    /\ idx < Len(DATA.urls)
    /\ LET url_information == DATA.urls[idx + 1]
       IN  /\ ~SkippedEarly(url_information)
           /\ ~StrptimeOk(url_information.last_sync, FMT_SECONDS)
    /\ Raise("ValueError")
    /\ UNCHANGED <<platform, euid, NOW, file, file0, fetched, DATA, warnings,
                   have_failed, mode, idx, mirror_path, fileOpen, openLog,
                   writes, yielded, calls>>

(* updated_urls, line 172: the entry passed every test; the generator      *)
(* suspends and main's loop variable receives the line.                    *)
updated_urls_yield ==
    /\ pc = "for"
    /\ idx < Len(DATA.urls)
    /\ LET url_information == DATA.urls[idx + 1]
       IN  /\ ~SkippedEarly(url_information)
           /\ StrptimeOk(url_information.last_sync, FMT_SECONDS)
           /\ ~is_outdated(url_information.last_sync, FMT_SECONDS)
           /\ calls' = calls \cup
                  {CallRecord(url_information.last_sync, FMT_SECONDS)}
           /\ mirror_path' = FormatLine(url_information.url)
           /\ yielded' = Append(yielded, FormatLine(url_information.url))
    /\ idx' = idx + 1
    /\ pc' = "body"
    /\ UNCHANGED <<platform, euid, NOW, file, file0, error, fetched, DATA,
                   warnings, have_failed, mode, fileOpen, openLog, writes>>

(* updated_urls, line 153: the list is exhausted, main's for loop ends *)
updated_urls_return ==
    /\ pc = "for"
    /\ idx = Len(DATA.urls)
    /\ pc' = "after"
    /\ UNCHANGED <<platform, euid, NOW, file, file0, error, fetched, DATA,
                   warnings, have_failed, mode, idx, mirror_path, fileOpen,
                   openLog, writes, yielded, calls>>

(* Variant: the file is opened without truncation (mode "a" throughout). *)
OpenFile_noTruncate ==
    /\ pc = "body"
    /\ have_failed' = FALSE
    /\ fileOpen' = TRUE
    /\ openLog' = Append(openLog, mode)
    /\ file' = file
    /\ pc' = "write"
    /\ UNCHANGED <<platform, euid, NOW, file0, error, fetched, DATA, warnings,
                   mode, idx, mirror_path, writes, yielded, calls>>

(* main, lines 67-69: open(MIRROR_LIST_PATH, mode); "w" truncates *)
OpenFile ==
    /\ pc = "body"
    /\ have_failed' = FALSE
    /\ fileOpen' = TRUE
    /\ openLog' = Append(openLog, mode)
    /\ file' = IF mode = "w" THEN <<>> ELSE file
    /\ pc' = "write"
    /\ UNCHANGED <<platform, euid, NOW, file0, error, fetched, DATA, warnings,
                   mode, idx, mirror_path, writes, yielded, calls>>

(* main, lines 67-69: open raises OSError, nothing is opened or truncated *)
OpenFileFails ==
    /\ pc = "body"
    /\ have_failed' = FALSE
    /\ Raise("OSError")
    /\ UNCHANGED <<platform, euid, NOW, file, file0, fetched, DATA, warnings,
                   mode, idx, mirror_path, fileOpen, openLog, writes, yielded,
                   calls>>

(* Variant: the line is put in front of the file's content. *)
WriteLine_prepend ==
    /\ pc = "write"
    /\ fileOpen
    /\ file' = <<mirror_path>> \o file
    /\ writes' = writes + 1
    /\ pc' = "close"
    /\ UNCHANGED <<platform, euid, NOW, file0, error, fetched, DATA, warnings,
                   have_failed, mode, idx, mirror_path, fileOpen, openLog,
                   yielded, calls>>

(* main, line 70 *)
WriteLine ==
    /\ pc = "write"
    /\ fileOpen
    /\ file' = Append(file, mirror_path)
    /\ writes' = writes + 1
    /\ pc' = "close"
    /\ UNCHANGED <<platform, euid, NOW, file0, error, fetched, DATA, warnings,
                   have_failed, mode, idx, mirror_path, fileOpen, openLog,
                   yielded, calls>>

(* Variant: mode stays "w" after the first line. *)
CloseFile_keepMode ==
    /\ pc = "close"
    /\ fileOpen' = FALSE
    /\ mode' = mode
    /\ pc' = "for"
    /\ UNCHANGED <<platform, euid, NOW, file, file0, error, fetched, DATA,
                   warnings, have_failed, idx, mirror_path, openLog, writes,
                   yielded, calls>>

(* main, lines 69-72: the with block exits and closes the file, mode = "a" *)
CloseFile ==
    /\ pc = "close"
    /\ fileOpen' = FALSE
    /\ mode' = "a"
    /\ pc' = "for"
    /\ UNCHANGED <<platform, euid, NOW, file, file0, error, fetched, DATA,
                   warnings, have_failed, idx, mirror_path, openLog, writes,
                   yielded, calls>>

(* Variant: the warning is emitted whatever have_failed is. *)
OutcomeAdvisory_unconditional ==
    /\ pc = "after"
    /\ warnings' = Append(warnings, NotUpdatedWarning)
    /\ pc' = "done"
    /\ UNCHANGED <<platform, euid, NOW, file, file0, error, fetched, DATA,
                   have_failed, mode, idx, mirror_path, fileOpen, openLog,
                   writes, yielded, calls>>

(* main, lines 74-75 *)
OutcomeAdvisory ==
    /\ pc = "after"
    /\ warnings' = IF have_failed THEN Append(warnings, NotUpdatedWarning)
                                  ELSE warnings
    /\ pc' = "done"
    /\ UNCHANGED <<platform, euid, NOW, file, file0, error, fetched, DATA,
                   have_failed, mode, idx, mirror_path, fileOpen, openLog,
                   writes, yielded, calls>>

Next ==
    \/ CheckPreconditions
    \/ LoadData
    \/ LoadDataNetworkError
    \/ LoadDataParseError
    \/ StalenessAdvisory
    \/ updated_urls_continue
    \/ updated_urls_raise
    \/ updated_urls_yield
    \/ updated_urls_return
    \/ OpenFile
    \/ OpenFileFails
    \/ WriteLine
    \/ CloseFile
    \/ OutcomeAdvisory

Spec == Init /\ [][Next]_vars

(* ------------------------------ properties ----------------------------- *)
Range(s) == { s[i] : i \in DOMAIN s }

(* The instant a timestamp string denotes lies more than `hours` hours     *)
(* before `now`, whole seconds compared first and microseconds second.     *)
ElapsedExceeds(now, timestamp, hours) ==
    LET dS   == ToSeconds(now) - ToSeconds(timestamp)
        tsUs == IF timestamp.frac = NoFrac THEN 0 ELSE timestamp.frac
    IN  \/ dS > hours * 3600
        \/ dS = hours * 3600 /\ now.microsecond > tsUs

(* The six predicates of the filter, stated on the entry alone. *)
AllSix(e) ==
    /\ \A b \in URL_BLACKLIST : ~Contains(b, e.url)
    /\ e.active = TRUE
    /\ e.protocol = "https"
    /\ e.completion_pct[1] >= MINIMUM_COMPLETION_PERCENTAGE * e.completion_pct[2]
    /\ e.score[1] < MAX_SCORE * e.score[2]
    /\ e.last_sync.frac = NoFrac
    /\ ~ElapsedExceeds(NOW, e.last_sync, MAX_LAST_SYNC_HOURS)

LinesOf(entries) == [i \in 1..Len(entries) |-> FormatLine(entries[i].url)]

Survivors(entries) == LinesOf(SelectSeq(entries, AllSix))

IsSubseq(s, t) ==
    \E f \in [1..Len(s) -> 1..Len(t)] :
        /\ \A i, j \in 1..Len(s) : i < j => f[i] < f[j]
        /\ \A i \in 1..Len(s) : s[i] = t[f[i]]

(* C1: at every point of the iteration the lines yielded so far by         *)
(* updated_urls are exactly the lines of the entries consumed so far that  *)
(* satisfy all six predicates (not blacklisted, active, protocol "https",  *)
(* completion_pct >= minimum, score < MAX_SCORE, last_sync not outdated).  *)
C1_FilterExact ==
    yielded = Survivors(SubSeq(DATA.urls, 1, idx))

C1_Witness ==
    /\ pc = "done"
    /\ Len(DATA.urls) = 2
    /\ Len(yielded) = 1
    /\ \E i \in 1..2 : DATA.urls[i].score = <<1, 1>>

(* C2: after a run that ends without error and in which at least one entry *)
(* passes the filter, the file holds exactly the surviving entries' lines  *)
(* in input order and nothing of its earlier content.                      *)
C2_FileReplaced ==
    (pc = "done" /\ \E i \in 1..Len(DATA.urls) : AllSix(DATA.urls[i]))
        => file = Survivors(DATA.urls)

C2_Witness ==
    /\ pc = "done"
    /\ file0 # <<>>
    /\ Len(file) = 2
    /\ OldLine \notin Range(file)

(* C3: when no entry of the fetched list passes the filter (the empty list *)
(* included) the file is never opened, truncated or written, and keeps its *)
(* initial content.                                                        *)
C3_Untouched ==
    (\A i \in 1..Len(DATA.urls) : ~AllSix(DATA.urls[i]))
        => /\ openLog = <<>>
           /\ ~fileOpen
           /\ writes = 0
           /\ file = file0

C3_Witness ==
    /\ pc = "done"
    /\ Len(DATA.urls) = 2
    /\ \A i \in 1..2 : ~AllSix(DATA.urls[i])
    /\ file0 # <<>>
    /\ file = file0

(* C4: whenever a run aborts with a network error, a parse error of the    *)
(* body or a timestamp parse error, the file has not been opened and its   *)
(* content equals its content before the run.                              *)
C4_AbortLeavesFile ==
    (pc = "error" /\ error \in {"URLError", "UnicodeDecodeError",
                                "JSONDecodeError", "ValueError"})
        => /\ openLog = <<>>
           /\ file = file0

(* C5: the network request and every open of the file happen only after    *)
(* both precondition checks passed; a non-linux platform or a non-root     *)
(* user aborts the run with a RuntimeError.                                *)
C5_PreconditionsFirst ==
    LET linux == \E i \in DOMAIN platform : platform[i] = "linux"
    IN  /\ (fetched \/ openLog # <<>> \/ fileOpen \/ file # file0)
            => (linux /\ euid = 0)
        /\ (pc # "main" /\ ~(linux /\ euid = 0))
            => /\ pc = "error"
               /\ error \in {"RuntimeError: The running platform is not linux",
                             "RuntimeError: The user who is running the script needs to be root"}

C5_Witness ==
    /\ pc = "error"
    /\ platform = <<"linux", "2">>
    /\ euid # 0
    /\ ~fetched

(* C6: the lines yielded, and the lines in the file once the run has       *)
(* opened it, always appear in the order of their entries in the fetched   *)
(* list.                                                                   *)
C6_Stable ==
    /\ IsSubseq(yielded, LinesOf(DATA.urls))
    /\ openLog # <<>> => IsSubseq(file, LinesOf(DATA.urls))

C6_Witness ==
    /\ pc = "done"
    /\ Len(file) = 2
    /\ file[1] # file[2]
    /\ DATA.urls[1].score[1] * DATA.urls[2].score[2]
          > DATA.urls[2].score[1] * DATA.urls[1].score[2]

(* C7: every call of is_outdated returned true exactly when the time from  *)
(* the timestamp to NOW is strictly more than 6 hours.                     *)
C7_Outdated ==
    \A c \in calls :
        c.result <=> ElapsedExceeds(NOW, c.timestamp, 6)

C7_Witness ==
    /\ \E c \in calls : /\ ToSeconds(NOW) - ToSeconds(c.timestamp) = 6 * 3600
                        /\ NOW.microsecond = 0
                        /\ c.timestamp.frac \in {NoFrac, 0}
                        /\ ~c.result
    /\ \E c \in calls : /\ ToSeconds(NOW) - ToSeconds(c.timestamp) = 6 * 3600 + 1
                        /\ c.timestamp.frac = 999999
                        /\ c.result
    /\ \E c \in calls : /\ ToSeconds(c.timestamp) > ToSeconds(NOW)
                        /\ ~c.result

(* C8: a run that reaches its end emitted the "not updated" warning        *)
(* exactly when it wrote no line; the warning and a write never occur in   *)
(* the same run, and the warning does not abort the run.                   *)
C8_Warning ==
    LET warned == NotUpdatedWarning \in Range(warnings)
    IN  /\ pc = "done" => (warned <=> writes = 0)
        /\ ~(warned /\ writes > 0)
        /\ warned => (pc = "done" /\ error = "none")

C8_Witness ==
    /\ pc = "done"
    /\ NotUpdatedWarning \in Range(warnings)
    /\ Len(DATA.urls) = 2
    /\ writes = 0

(* C9: an outdated last_check adds the staleness warning and nothing else: *)
(* it never aborts the run (a run whose last_check parsed aborts only on   *)
(* a failed open or on an entry's unparsable last_sync), and a run that    *)
(* ends leaves the file that the urls list alone determines.               *)
C9_StaleOnlyWarns ==
    LET parsed == DATA.last_check.frac # NoFrac
        stale  == parsed /\ ElapsedExceeds(NOW, DATA.last_check, MAX_LAST_SYNC_HOURS)
        past   == pc \in {"for", "body", "write", "close", "after", "done"}
    IN  /\ (StaleWarning \in Range(warnings)) => stale
        /\ (past /\ stale) => StaleWarning \in Range(warnings)
        /\ (pc = "error" /\ parsed)
              => \/ error = "OSError"
                 \/ /\ error = "ValueError"
                    /\ \E i \in 1..Len(DATA.urls) :
                           DATA.urls[i].last_sync.frac # NoFrac
        /\ pc = "done"
              => /\ error = "none"
                 /\ file = IF Survivors(DATA.urls) = <<>>
                             THEN file0 ELSE Survivors(DATA.urls)

C9_Witness ==
    /\ pc = "done"
    /\ StaleWarning \in Range(warnings)
    /\ writes = 2

(* C10 as stated: a run that yields N >= 1 lines opens the file once.      *)
C10_SingleOpen ==
    (pc = "done" /\ Len(yielded) >= 1) => Len(openLog) = 1

(* C10: a run that yields N >= 1 lines opens the file N times, once per    *)
(* line, the first time in mode "w" and afterwards in mode "a"; each open  *)
(* carries one write and is closed before the next entry is examined.      *)
C10_OpenPerLine ==
    /\ \A k \in 1..Len(openLog) : openLog[k] = IF k = 1 THEN "w" ELSE "a"
    /\ Len(openLog) = writes + (IF pc = "write" THEN 1 ELSE 0)
    /\ fileOpen <=> pc \in {"write", "close"}
    /\ pc = "done" => Len(openLog) = Len(yielded)

C10_Witness ==
    /\ pc = "done"
    /\ Len(yielded) = 2
    /\ openLog = <<"w", "a">>

====
